---- MODULE Spec2Model ----
(***************************************************************************)
(* A model of bloomfilter.go: the bit array, the two constructors, the     *)
(* position generator, the seeded FNV-1a digest, byte export/import and    *)
(* the sync.RWMutex that guards the buckets.                               *)
(*                                                                         *)
(* Number representation.  TLC's integers are 32-bit signed, so a Go       *)
(* uint32 is held as a pair <<hi, lo>> of 16-bit halves (value             *)
(* hi * 2^16 + lo), and a Go int (64-bit) as a pair <<hi, lo>> whose lo is *)
(* a 16-bit half and whose hi is any integer (value hi * 2^16 + lo).       *)
(* Every uint32 operation below wraps modulo 2^32 as the Go operation does.*)
(***************************************************************************)
EXTENDS Integers, Sequences, FiniteSets, TLC

VARIABLES
    bf,     \* the filter: [m, k, buckets]
    out,    \* the byte slice last returned by ToBytes, or NoBytes
    g,      \* the filter last built by NewFromBytes from out, or NoFilter
    ret,    \* the last call, its arguments and what it returned
    added,  \* history: the byte sequences whose Add has returned
    outOf,  \* history: bf and added as they were when out was exported
    gOf,    \* history: outOf as it was when g was built
    nops,   \* history: the number of calls made so far
    th,     \* concurrent use: each thread's call, position and locals
    lock,   \* concurrent use: the filter's sync.RWMutex
    own,    \* storage: which backing array bf's words, out and g's words use
    dh      \* double hashing: two digests, a bit count and their offsets

----------------------------------------------------------------------------
(* 32-bit unsigned arithmetic on <<hi, lo>> pairs *)

Half == 2^16

Hi(a) == a[1]
Lo(a) == a[2]

\* TLC evaluates an operator's argument where it is first used, however deep
\* in the callee that is.  Known(x) is TRUE and uses x: a loop that tests
\* Known(x) at its head evaluates one iteration at a time instead of nesting
\* all of them on TLC's stack.  It changes no value.
Known(x) == x = x

\* uint32(x) for a Go int x held as <<hi, lo>>: the low 32 bits.
ToUint32(x) == <<Hi(x) % Half, Lo(x)>>

\* a small non-negative TLC integer as a uint32 / as a Go int
U32(n) == <<(n \div Half) % Half, n % Half>>
IntOf(n) == <<n \div Half, n % Half>>

\* the value of a uint32 or Go int known to be small enough for TLC
Val(a) == Hi(a) * Half + Lo(a)

Pow2(s) == 2^s

\* a + b mod 2^32
Add32(a, b) ==
    LET lo == Lo(a) + Lo(b)
    IN  <<(Hi(a) + Hi(b) + lo \div Half) % Half, lo % Half>>

\* a << s mod 2^32, 0 <= s < 32
Shl32(a, s) ==
    IF s >= 16
    THEN <<(Lo(a) * Pow2(s - 16)) % Half, 0>>
    ELSE LET lo == Lo(a) * Pow2(s)
         IN  <<(Hi(a) * Pow2(s) + lo \div Half) % Half, lo % Half>>

\* a >> s, 0 <= s < 32
Shr32(a, s) ==
    IF s >= 16
    THEN <<0, Hi(a) \div Pow2(s - 16)>>
    ELSE <<Hi(a) \div Pow2(s),
           Lo(a) \div Pow2(s) + (Hi(a) % Pow2(s)) * Pow2(16 - s)>>

\* Bitwise operations on 16-bit halves, four bits at a time.  Bit j of a
\* 4-bit x is (x \div 2^j) % 2; the result bit is computed from the two
\* operand bits and the four results are weighted back.
Xor4(x, y) ==
    ((x + y) % 2) + 2 * (((x \div 2) + (y \div 2)) % 2)
        + 4 * (((x \div 4) + (y \div 4)) % 2) + 8 * (((x \div 8) + (y \div 8)) % 2)
And4(x, y) ==
    ((x % 2) * (y % 2)) + 2 * (((x \div 2) % 2) * ((y \div 2) % 2))
        + 4 * (((x \div 4) % 2) * ((y \div 4) % 2)) + 8 * ((x \div 8) * (y \div 8))
Nib(x, j) == (x \div Pow2(4 * j)) % 16

XorNat(x, y) ==
    Xor4(Nib(x, 0), Nib(y, 0)) + 16 * Xor4(Nib(x, 1), Nib(y, 1))
        + 256 * Xor4(Nib(x, 2), Nib(y, 2)) + 4096 * Xor4(Nib(x, 3), Nib(y, 3))
AndNat(x, y) ==
    And4(Nib(x, 0), Nib(y, 0)) + 16 * And4(Nib(x, 1), Nib(y, 1))
        + 256 * And4(Nib(x, 2), Nib(y, 2)) + 4096 * And4(Nib(x, 3), Nib(y, 3))
\* x | y = (x ^ y) + (x & y)
OrNat(x, y) == XorNat(x, y) + AndNat(x, y)

\* a ^ b
Xor32(a, b) == <<XorNat(Hi(a), Hi(b)), XorNat(Lo(a), Lo(b))>>

\* a | b and a & b
Or32(a, b) == <<OrNat(Hi(a), Hi(b)), OrNat(Lo(a), Lo(b))>>
And32(a, b) == <<AndNat(Hi(a), Hi(b)), AndNat(Lo(a), Lo(b))>>

\* a * c mod 2^32 for a small constant c (c < 2^15)
MulSmall32(a, c) ==
    LET lo == Lo(a) * c
    IN  <<(Hi(a) * c + lo \div Half) % Half, lo % Half>>

\* Go int arithmetic on <<hi, lo>>: x * c and x / c for a small constant c > 0
\* and x >= 0, and the comparison x < y
MulSmallInt(x, c) ==
    LET lo == Lo(x) * c
    IN  <<Hi(x) * c + lo \div Half, lo % Half>>
DivSmallInt(x, c) ==
    <<Hi(x) \div c, ((Hi(x) % c) * Half + Lo(x)) \div c>>
ModSmallInt(x, c) == (((Hi(x) % c) * (Half % c)) + Lo(x)) % c
AddSmallInt(x, c) ==
    LET lo == Lo(x) + c
    IN  <<Hi(x) + lo \div Half, lo % Half>>
LessInt(x, y) == Hi(x) < Hi(y) \/ (Hi(x) = Hi(y) /\ Lo(x) < Lo(y))

\* a < b and a - b mod 2^32
Less32(a, b) == Hi(a) < Hi(b) \/ (Hi(a) = Hi(b) /\ Lo(a) < Lo(b))
Sub32(a, b) ==
    LET lo == Lo(a) - Lo(b)
    IN  <<(Hi(a) - Hi(b) + (IF lo < 0 THEN -1 ELSE 0)) % Half, lo % Half>>

\* bit j (0..31) of a
Bit32(a, j) ==
    IF j >= 16 THEN (Hi(a) \div Pow2(j - 16)) % 2 ELSE (Lo(a) \div Pow2(j)) % 2

\* a % m for m >= 2^16: binary long division, the remainder kept below m.
\* Doubling a remainder r >= 2^31 leaves the uint32 range; the true value
\* 2r + bit - m is below m < 2^32, so the wrapped subtraction is exact.
RECURSIVE ModLong(_, _, _, _)
ModLong(a, m, r, j) ==
    IF j < 0 THEN r
    ELSE LET over == Hi(r) >= Half \div 2
             d    == Add32(Add32(r, r), U32(Bit32(a, j)))
             r2   == IF over \/ ~Less32(d, m) THEN Sub32(d, m) ELSE d
         IN  ModLong(a, m, r2, j - 1)

\* a bug in the offset computation: the reduction modulo m is left out
Mod32_Identity(a, m) == a

\* a % m on uint32 operands, m # 0 (Go panics on m = 0: see the callers)
Mod32(a, m) ==
    IF Hi(m) = 0
    THEN <<0, ((Hi(a) % Lo(m)) * (Half % Lo(m)) + Lo(a)) % Lo(m)>>
    ELSE ModLong(a, m, <<0, 0>>, 31)

----------------------------------------------------------------------------
(* The hash: fnv_1a, fnv_multiply, fnv_mix *)

\* 2166136261 = 0x811C9DC5, the FNV offset basis
OffsetBasis == <<33052, 40389>>
\* 1576284489 = 0x5DF43149, the seed of the second digest
SeedB == <<24052, 12617>>
SeedA == <<0, 0>>

\* a * 16777619 mod 2^32, by the shifts and adds of the source
fnv_multiply(a) ==
    IF Known(a)
    THEN Add32(Add32(Add32(Add32(Add32(a, Shl32(a, 1)), Shl32(a, 4)),
                           Shl32(a, 7)), Shl32(a, 8)), Shl32(a, 24))
    ELSE a

\* a += a << s and a ^= a >> s
MixAdd(a, s) == IF Known(a) THEN Add32(a, Shl32(a, s)) ELSE a
MixXor(a, s) == IF Known(a) THEN Xor32(a, Shr32(a, s)) ELSE a

fnv_mix(a) ==
    And32(MixAdd(MixXor(MixAdd(MixXor(MixAdd(a, 13), 7), 3), 17), 5),
          <<Half - 1, Half - 1>>)

\* the loop body of fnv_1a for the byte b: c = uint32(b), d = c & 0xff00,
\* the round for d >> 8 when d is not zero, then the round for c & 0xff
FnvHigh(a, d) ==
    IF d # <<0, 0>> THEN fnv_multiply(Xor32(a, Shr32(d, 8))) ELSE a
FnvByte(a, b) ==
    fnv_multiply(Xor32(FnvHigh(a, And32(<<0, b>>, <<0, 65280>>)),
                       And32(<<0, b>>, <<0, 255>>)))

\* the loop of fnv_1a over v[i..]
RECURSIVE FnvLoop(_, _, _)
FnvLoop(a, v, i) ==
    IF Known(a) /\ i <= Len(v) THEN FnvLoop(FnvByte(a, v[i]), v, i + 1) ELSE a

\* uint32(2166136261 ^ seed) keeps the low 32 bits of the xor, which is the
\* xor of the low 32 bits of the operands.
fnv_1a(v, seed) ==
    fnv_mix(FnvLoop(Xor32(OffsetBasis, ToUint32(seed)), v, 1))

----------------------------------------------------------------------------
(* Slices.  A []uint32 or []byte is held sparsely: its length (a Go int)    *)
(* and the elements that are not zero, as a function from index to element. *)
(* make() and Go's zero value give the empty function; an element is only   *)
(* ever stored when it is non-zero, so equal slices are equal records.      *)

EmptyFn == [i \in {} |-> 0]

MakeSlice(n) == [len |-> n, nz |-> EmptyFn]

\* buckets[i] and bb[i]
WordAt(s, i) == IF i \in DOMAIN s.nz THEN s.nz[i] ELSE <<0, 0>>
ByteAt(s, i) == IF i \in DOMAIN s.nz THEN s.nz[i] ELSE 0

\* buckets[i] = w
WordPut(s, i, w) ==
    IF w = <<0, 0>>
    THEN [s EXCEPT !.nz = [j \in DOMAIN s.nz \ {i} |-> s.nz[j]]]
    ELSE [s EXCEPT !.nz = [j \in DOMAIN s.nz \cup {i} |->
                              IF j = i THEN w ELSE s.nz[j]]]

\* a byte literal such as []byte("foo"), given as a TLA+ sequence
BytesOf(q) ==
    [len |-> IntOf(Len(q)),
     nz  |-> [i \in {IntOf(j - 1) : j \in {x \in 1..Len(q) : q[x] # 0}} |->
                 q[Val(i) + 1]]]

----------------------------------------------------------------------------
(* The filter: New, NewFromBytes, locations, Add, Test, ToBytes *)

\* a byte order bug: the least significant byte first
PutUint32_LittleEndian(w) ==
    <<Lo(w) % 256, Lo(w) \div 256, Hi(w) % 256, Hi(w) \div 256>>

Uint32_LittleEndian(b) == <<b[4] * 256 + b[3], b[2] * 256 + b[1]>>

\* binary.BigEndian.PutUint32 and binary.BigEndian.Uint32
PutUint32(w) ==
    <<Hi(w) \div 256, Hi(w) % 256, Lo(w) \div 256, Lo(w) % 256>>
Uint32(b) == <<b[1] * 256 + b[2], b[3] * 256 + b[4]>>

\* math.Ceil(float64(m) / 32) for 0 <= m < 2^53, where the division and the
\* conversions are exact
CeilDiv32(m) ==
    LET q == DivSmallInt(m, 32)
    IN  IF ModSmallInt(m, 32) = 0 THEN q ELSE AddSmallInt(q, 1)

New(m, k) ==
    LET n == ToUint32(CeilDiv32(m))
    IN  [m |-> MulSmall32(n, 32), k |-> k, buckets |-> MakeSlice(n)]

\* a bug in the length: a trailing partial word is kept, padded with zeros
NewFromBytes_PadsTail(bb, k) ==
    LET n  == DivSmallInt(AddSmallInt(bb.len, 3), 4)
        ix == {DivSmallInt(j, 4) : j \in DOMAIN bb.nz}
        ii == [len |-> n,
               nz  |-> [i \in ix |->
                          Uint32([b \in 1..4 |->
                                    ByteAt(bb, AddSmallInt(MulSmallInt(i, 4), b - 1))])]]
    IN  [m |-> ToUint32(MulSmallInt(ii.len, 32)), k |-> k, buckets |-> ii]

NewFromBytes(bb, k) ==
    LET n  == DivSmallInt(bb.len, 4)
        ix == {i \in {DivSmallInt(j, 4) : j \in DOMAIN bb.nz} : LessInt(i, n)}
        ii == [len |-> n,
               nz  |-> [i \in ix |->
                          Uint32([b \in 1..4 |->
                                    ByteAt(bb, AddSmallInt(MulSmallInt(i, 4), b - 1))])]]
    IN  [m |-> ToUint32(MulSmallInt(ii.len, 32)), k |-> k, buckets |-> ii]

\* the loop of locations: r[i] = x; x = (x + b) % m
RECURSIVE LocLoop(_, _, _, _)
LocLoop(x, b, m, k) ==
    IF Known(x) /\ Known(b) /\ k > 0
    THEN <<x>> \o LocLoop(Mod32(Add32(x, b), m), b, m, k - 1)
    ELSE <<>>

\* locations panics when make is given a negative length (k < 0) and when
\* the modulus is zero (m = 0)
LocationsPanics(f) == f.k < 0 \/ f.m = <<0, 0>>

\* the offsets locations derives from the digests a and b: x = a % m, then
\* the loop
OffsetsFrom(a, b, m, k) == LocLoop(Mod32(a, m), b, m, k)

locations(f, v) == OffsetsFrom(fnv_1a(v, SeedA), fnv_1a(v, SeedB), f.m, f.k)

\* two bugs in the bit update: ^= in place of |=, and = in place of |=
SetBit_Toggle(buckets, l) ==
    WordPut(buckets, Shr32(l, 5),
            Xor32(WordAt(buckets, Shr32(l, 5)), Shl32(<<0, 1>>, Lo(l) % 32)))
SetBit_Assign(buckets, l) ==
    WordPut(buckets, Shr32(l, 5), Shl32(<<0, 1>>, Lo(l) % 32))

\* a bug in the bit update: bit 0 of the word is set as well
SetBit_AlsoBitZero(buckets, l) ==
    WordPut(buckets, Shr32(l, 5),
            Or32(WordAt(buckets, Shr32(l, 5)),
                 Or32(<<0, 1>>, Shl32(<<0, 1>>, Lo(l) % 32))))

\* buckets[l/32] |= 1 << (l % 32)
SetBit(buckets, l) ==
    WordPut(buckets, Shr32(l, 5),
            Or32(WordAt(buckets, Shr32(l, 5)), Shl32(<<0, 1>>, Lo(l) % 32)))

\* (buckets[l/32] & (1 << (l % 32))) == 0
BitClear(buckets, l) ==
    And32(WordAt(buckets, Shr32(l, 5)), Shl32(<<0, 1>>, Lo(l) % 32)) = <<0, 0>>

\* the loop of Add over loc[i..]
RECURSIVE AddLoop(_, _, _)
AddLoop(buckets, loc, i) ==
    IF Known(buckets) /\ i <= Len(loc)
    THEN AddLoop(SetBit(buckets, loc[i]), loc, i + 1)
    ELSE buckets

\* an off-by-one bug in the loop of Add: the first offset is skipped
Add_SkipFirst(f, v) ==
    [f EXCEPT !.buckets = AddLoop(f.buckets, locations(f, v), 2)]

\* the filter after Add(v), when locations does not panic
Add(f, v) == [f EXCEPT !.buckets = AddLoop(f.buckets, locations(f, v), 1)]

\* the loop of Test over loc[i..], returning at the first clear bit
RECURSIVE TestLoop(_, _, _)
TestLoop(buckets, loc, i) ==
    IF i > Len(loc) THEN TRUE
    ELSE IF BitClear(buckets, loc[i]) THEN FALSE
    ELSE TestLoop(buckets, loc, i + 1)

\* what Test(v) returns, when locations does not panic
Test(f, v) == TestLoop(f.buckets, locations(f, v), 1)

\* a byte order bug in AddInt and TestInt
IntBytes_LittleEndian(v) == PutUint32_LittleEndian(ToUint32(v))

\* the 4-byte big-endian encoding AddInt and TestInt make of uint32(v)
IntBytes(v) == PutUint32(ToUint32(v))

\* ToBytes: 4 bytes appended per bucket, in bucket order
ToBytes(f) ==
    LET bs == {<<i, b>> \in (DOMAIN f.buckets.nz) \X (1..4) :
                  PutUint32(f.buckets.nz[i])[b] # 0}
    IN  [len |-> MulSmallInt(f.buckets.len, 4),
         nz  |-> [j \in {AddSmallInt(MulSmallInt(p[1], 4), p[2] - 1) : p \in bs} |->
                    PutUint32(f.buckets.nz[DivSmallInt(j, 4)])[ModSmallInt(j, 4) + 1]]]

----------------------------------------------------------------------------
(* Sequential use: one caller, each call running to completion *)

MaxBits == 64
MaxK == 2
MaxOps == 3

\* requested bit counts (Go ints): small ones, and ones around 2^32
ReqBits ==
    {IntOf(x) : x \in {0, 1, 32, 33, MaxBits}}
        \cup {<<Half - 1, Half - 1>>, <<Half, 0>>, <<Half, 33>>}

\* hash counts handed to the constructors
HashCounts == -1..MaxK

\* byte sequences handed to NewFromBytes at start
ImportSeqs == {<<>>, <<1, 2, 3>>, <<0, 0, 128, 1>>, <<1, 0, 0, 0, 255>>}

\* values added and tested: "foo" and the empty sequence
ByteSeqs == {<<102, 111, 111>>, <<>>}

\* integers added and tested: 1 and 2^32 + 1
IntArgs == {<<0, 1>>, <<Half, 1>>}

NoBytes == [len |-> <<-1, 0>>, nz |-> EmptyFn]
NoFilter == [m |-> <<0, 0>>, k |-> 0, buckets |-> NoBytes]
NoSnap == [f |-> NoFilter, added |-> {}]

vars == <<bf, out, g, ret, added, outOf, gOf, nops, th, lock, own, dh>>

\* the variables of concurrent use, and those only sequential use changes
concvars == <<th, lock>>
seqvars == <<out, g, ret, outOf, gOf, nops>>

\* the variables that only the storage and the double hashing models change
auxvars == <<own, dh>>

\* no backing array followed, no digests drawn
NoOwner == [bf |-> 0, out |-> 0, g |-> 0]
NoDigests == [a |-> <<0, 0>>, b |-> <<0, 0>>, m |-> <<0, 0>>, k |-> 0,
              done |-> FALSE, r |-> <<>>]

NumThreads == 2
Threads == 1..NumThreads

\* a thread between calls, its locals gone, and the RWMutex unlocked: no writer holds or
\* waits for it (w = 0), no thread holds a read lock, none waits for one
Idle ==
    [pc |-> "idle", op |-> "none", v |-> <<>>, loc |-> <<>>, i |-> 0,
     w |-> <<0, 0>>, res |-> "none", sure |-> FALSE, inInt |-> FALSE,
     bb |-> MakeSlice(<<0, 0>>)]
Unlocked ==
    [w |-> 0, active |-> FALSE, r |-> [t \in Threads |-> 0], wait |-> {}]

Init ==
    /\ \/ \E m \in ReqBits, k \in HashCounts :
            /\ bf = New(m, k)
            /\ ret = [op |-> "New", arg |-> [m |-> m, k |-> k], val |-> "ok"]
       \/ \E q \in ImportSeqs, k \in HashCounts :
            /\ bf = NewFromBytes(BytesOf(q), k)
            /\ ret = [op |-> "NewFromBytes",
                      arg |-> [b |-> BytesOf(q), k |-> k], val |-> "ok"]
    /\ out = NoBytes
    /\ g = NoFilter
    /\ added = {}
    /\ outOf = NoSnap
    /\ gOf = NoSnap
    /\ nops = 0
    /\ th = [t \in Threads |-> Idle]
    /\ lock = Unlocked
    /\ own = NoOwner
    /\ dh = NoDigests

\* A panic is not recovered: it ends the program.
Running == ret.val # "panic" /\ nops < MaxOps

\* Add(v): a panic in locations leaves the buckets as they were
CallAdd(op, arg, v) ==
    /\ Running
    /\ nops' = nops + 1
    /\ IF LocationsPanics(bf)
       THEN /\ ret' = [op |-> op, arg |-> arg, val |-> "panic"]
            /\ UNCHANGED <<bf, added>>
       ELSE /\ bf' = Add(bf, v)
            /\ added' = added \cup {v}
            /\ ret' = [op |-> op, arg |-> arg, val |-> "ok"]
    /\ UNCHANGED <<out, g, outOf, gOf, concvars, auxvars>>

DoAdd(v) == CallAdd("Add", v, v)

DoAddInt(i) == CallAdd("AddInt", i, IntBytes(i))

CallTest(op, arg, v) ==
    /\ Running
    /\ nops' = nops + 1
    /\ ret' = [op |-> op, arg |-> arg,
               val |-> IF LocationsPanics(bf) THEN "panic"
                       ELSE IF Test(bf, v) THEN "true" ELSE "false"]
    /\ UNCHANGED <<bf, out, g, added, outOf, gOf, concvars, auxvars>>

DoTest(v) == CallTest("Test", v, v)

DoTestInt(i) == CallTest("TestInt", i, IntBytes(i))

DoToBytes ==
    /\ Running
    /\ nops' = nops + 1
    /\ out' = ToBytes(bf)
    /\ outOf' = [f |-> bf, added |-> added]
    /\ ret' = [op |-> "ToBytes", arg |-> <<>>, val |-> "ok"]
    /\ UNCHANGED <<bf, g, added, gOf, concvars, auxvars>>

DoNewFromBytes(k) ==
    /\ Running
    /\ out # NoBytes
    /\ nops' = nops + 1
    /\ g' = NewFromBytes(out, k)
    /\ gOf' = outOf
    /\ ret' = [op |-> "NewFromBytes", arg |-> [b |-> out, k |-> k], val |-> "ok"]
    /\ UNCHANGED <<bf, out, added, outOf, concvars, auxvars>>

Next ==
    \/ \E v \in ByteSeqs : DoAdd(v)
    \/ \E i \in IntArgs : DoAddInt(i)
    \/ \E v \in ByteSeqs : DoTest(v)
    \/ \E i \in IntArgs : DoTestInt(i)
    \/ DoToBytes
    \/ \E k \in HashCounts : DoNewFromBytes(k)

Spec == Init /\ [][Next]_vars

----------------------------------------------------------------------------
(* Properties of sequential use *)

\* the byte sequence a call's argument stands for
ArgBytes(r) == IF r.op \in {"AddInt", "TestInt"} THEN IntBytes(r.arg) ELSE r.arg

\* C1: no false negatives.  In every state, Test answers true for every value
\* whose Add has returned, and a Test or TestInt call made on such a value
\* returned true.
NoFalseNegatives ==
    /\ \A v \in added : Test(bf, v)
    /\ (ret.op \in {"Test", "TestInt"} /\ ArgBytes(ret) \in added)
           => ret.val = "true"

\* C1 witness: a Test of an added value has returned after two different
\* values were added.
NoFalseNegativesWitness ==
    /\ ret.op = "Test"
    /\ ret.arg \in added
    /\ Cardinality(added) >= 2
    /\ ret.val = "true"

\* C5: serialization round trip.  A filter g built by NewFromBytes from the
\* bytes ToBytes returned for a filter f, with f's hash count, has f's bit
\* count and f's buckets, answers Test as f does for every value and answers
\* true for every value that had been added to f.
RoundTrip ==
    (ret.op = "NewFromBytes" /\ g # NoFilter /\ g.k = gOf.f.k) =>
        /\ g.m = gOf.f.m
        /\ g.buckets = gOf.f.buckets
        /\ ~LocationsPanics(g) =>
              \A v \in ByteSeqs \cup {IntBytes(i) : i \in IntArgs} :
                  /\ Test(g, v) = Test(gOf.f, v)
                  /\ v \in gOf.added => Test(g, v)

\* C5 witness: a filter holding added values was exported and rebuilt with
\* its own hash count.
RoundTripWitness ==
    /\ ret.op = "NewFromBytes"
    /\ g # NoFilter
    /\ g.k = gOf.f.k
    /\ gOf.added # {}
    /\ DOMAIN g.buckets.nz # {}

\* bytes 4i..4i+3 of out are bucket i of the exported filter, most
\* significant byte first, and every other byte of out is zero
BigEndianWords ==
    /\ \A i \in DOMAIN outOf.f.buckets.nz : \A b \in 0..3 :
          LET w == outOf.f.buckets.nz[i]
              y == ByteAt(out, AddSmallInt(MulSmallInt(i, 4), b))
          IN  y = Shr32(w, 8 * (3 - b))[2] % 256
    /\ \A j \in DOMAIN out.nz : DivSmallInt(j, 4) \in DOMAIN outOf.f.buckets.nz

\* C6 as stated: the slice ToBytes returns has bitCount/4 bytes, each bucket
\* as 4 big-endian bytes in bucket order.
ToBytesShape ==
    out # NoBytes =>
        /\ out.len = DivSmallInt(outOf.f.m, 4)
        /\ BigEndianWords

\* C6 amended: the slice ToBytes returns has 4 bytes per bucket, which is
\* bitCount/8 bytes whenever bitCount is 32 times the number of buckets, each
\* bucket as 4 big-endian bytes in bucket order.
ToBytesLayout ==
    out # NoBytes =>
        /\ out.len = MulSmallInt(outOf.f.buckets.len, 4)
        /\ outOf.f.m = MulSmallInt(outOf.f.buckets.len, 32)
              => out.len = DivSmallInt(outOf.f.m, 8)
        /\ BigEndianWords

\* C6 witness: a filter of two or more buckets holding bits was exported.
ToBytesLayoutWitness ==
    /\ ret.op = "ToBytes"
    /\ DOMAIN out.nz # {}
    /\ LessInt(<<0, 1>>, outOf.f.buckets.len)

\* C7: Add is idempotent.  Right after Add(v) or AddInt(v) has returned,
\* another Add of the same value leaves the buckets as they are.
AddIdempotent ==
    (ret.op \in {"Add", "AddInt"} /\ ret.val = "ok") =>
        Add(bf, ArgBytes(ret)).buckets = bf.buckets

\* C7 witness: an Add that set bits has returned.
AddIdempotentWitness ==
    /\ ret.op = "Add"
    /\ ret.val = "ok"
    /\ bf.k >= 2
    /\ DOMAIN bf.buckets.nz # {}

\* C8: bits are monotone.  No step clears a bit: every bucket after the step
\* contains every bit it held before, and the number of buckets is unchanged.
BitsMonotone ==
    [][/\ bf'.buckets.len = bf.buckets.len
       /\ \A i \in DOMAIN bf.buckets.nz :
             And32(bf.buckets.nz[i], WordAt(bf'.buckets, i)) = bf.buckets.nz[i]]_vars

\* C8 witness: a second Add has returned on a filter that already held bits
\* of another value.
BitsMonotoneWitness ==
    /\ ret.op \in {"Add", "AddInt"}
    /\ ret.val = "ok"
    /\ Cardinality(added) >= 2
    /\ bf.k >= 1

\* C9: the bit count of a constructed filter is a positive multiple of 32.
BitCountPositiveMultiple ==
    /\ bf.m # <<0, 0>>
    /\ Lo(bf.m) % 32 = 0

\* C10: the bit count equals 32 times the number of buckets allocated.
BitCountMatchesBuckets ==
    bf.m = MulSmallInt(bf.buckets.len, 32)

\* the filter the last constructor call returned
Built == IF nops = 0 THEN bf ELSE g

\* C11: New rounds up.  For a requested bit count m >= 1, the filter New(m, k)
\* returns has as its bit count the smallest multiple of 32 that is >= m
\* (bitCount % 32 = 0 and m <= bitCount < m + 32), has hash count k, and has
\* only zero words.
NewRoundsUp ==
    (ret.op = "New" /\ LessInt(<<0, 0>>, ret.arg.m)) =>
        /\ Lo(bf.m) % 32 = 0
        /\ ~LessInt(bf.m, ret.arg.m)
        /\ LessInt(bf.m, AddSmallInt(ret.arg.m, 32))
        /\ bf.k = ret.arg.k
        /\ DOMAIN bf.buckets.nz = {}

\* the word index l/32 of an offset, as a Go int
WordIndex(l) == Shr32(l, 5)

\* C12: Add, Test and ToBytes cannot fail.  On a filter built with a hash
\* count k >= 0, no call panics, and every word index the call just made
\* used is below the number of words.
CallsComplete ==
    bf.k >= 0 =>
        /\ ret.val # "panic"
        /\ ret.op \in {"Add", "AddInt", "Test", "TestInt"} =>
              \A n \in 1..bf.k :
                  LessInt(WordIndex(locations(bf, ArgBytes(ret))[n]),
                          bf.buckets.len)

\* bytes 4i..4i+3 of the slice b read as one big-endian word
WordOfBytes(b, i) ==
    LET at(j) == ByteAt(b, AddSmallInt(MulSmallInt(i, 4), j))
    IN  <<at(0) * 256 + at(1), at(2) * 256 + at(3)>>

\* C14: NewFromBytes truncates and does not validate.  After
\* NewFromBytes(b, k) has returned, the filter it built has floor(len(b)/4)
\* words (4 * words <= len(b) < 4 * words + 4), word i is bytes 4i..4i+3 of b
\* read big-endian, and its hash count is k.  Words are compared where the
\* filter or b holds a non-zero element; everywhere else both are zero.
ImportTruncates ==
    ret.op = "NewFromBytes" =>
        LET b == ret.arg.b
            n == Built.buckets.len
        IN  /\ ret.val = "ok"
            /\ ~LessInt(b.len, MulSmallInt(n, 4))
            /\ LessInt(b.len, AddSmallInt(MulSmallInt(n, 4), 4))
            /\ \A i \in DOMAIN Built.buckets.nz : LessInt(i, n)
            /\ \A i \in DOMAIN Built.buckets.nz
                          \cup {DivSmallInt(j, 4) : j \in DOMAIN b.nz} :
                  LessInt(i, n) => WordAt(Built.buckets, i) = WordOfBytes(b, i)
            /\ Built.k = ret.arg.k

\* C14 witness: NewFromBytes has returned for 5 bytes whose last byte, the
\* ignored one, is not zero.
ImportTruncatesWitness ==
    /\ ret.op = "NewFromBytes"
    /\ ret.arg.b.len = <<0, 5>>
    /\ ByteAt(ret.arg.b, <<0, 4>>) # 0
    /\ DOMAIN Built.buckets.nz # {}

\* the 4 bytes of v mod 2^32, most significant first, for a Go int v
Low32BigEndian(v) ==
    <<(Hi(v) % Half) \div 256, (Hi(v) % Half) % 256, Lo(v) \div 256, Lo(v) % 256>>

\* the integers v and w agree in their low 32 bits
SameLow32(v, w) == Hi(v) % Half = Hi(w) % Half /\ Lo(v) = Lo(w)

\* C15: AddInt and TestInt use the low 32 bits.  A step that is AddInt(v)
\* changes the filter exactly as Add of the 4-byte big-endian encoding of
\* v mod 2^32 does, and then the encoding of every integer that agrees with v
\* in its low 32 bits tests true; a step that is TestInt(v) returns what Test
\* returns on the encoding of any such integer.
IntCallsUseLow32 ==
    [][/\ (nops' = nops + 1 /\ ret'.op = "AddInt" /\ ret'.val = "ok") =>
             /\ bf' = Add(bf, Low32BigEndian(ret'.arg))
             /\ \A w \in IntArgs :
                   SameLow32(w, ret'.arg) => Test(bf', Low32BigEndian(w))
       /\ (nops' = nops + 1 /\ ret'.op = "TestInt" /\ ret'.val # "panic") =>
             \A w \in IntArgs :
                 SameLow32(w, ret'.arg) =>
                     (ret'.val = "true") = Test(bf, Low32BigEndian(w))]_vars

\* C15 witness: TestInt(2^32 + 1) has returned true on a filter to which only
\* the encoding of 1 was added.
IntCallsUseLow32Witness ==
    /\ ret.op = "TestInt"
    /\ ret.arg = <<Half, 1>>
    /\ ret.val = "true"
    /\ added = {<<0, 0, 0, 1>>}
    /\ bf.k >= 1

\* C16: offsets are in range.  On a filter with bit count m > 0 and hash
\* count k >= 0, the offsets of the value of the call just made are exactly k,
\* each is below m, and each word index offset/32 is below the number of
\* words.
OffsetsInRange ==
    (/\ ret.op \in {"Add", "AddInt", "Test", "TestInt"}
     /\ bf.m # <<0, 0>>
     /\ bf.k >= 0) =>
        LET loc == locations(bf, ArgBytes(ret))
        IN  /\ Len(loc) = bf.k
            /\ \A n \in 1..Len(loc) :
                  /\ Less32(loc[n], bf.m)
                  /\ LessInt(WordIndex(loc[n]), bf.buckets.len)

\* C16 witness: Add has returned on a filter of 64 bits with two or more
\* hashes.
OffsetsInRangeWitness ==
    /\ ret.op = "Add"
    /\ ret.val = "ok"
    /\ bf.m = <<0, 64>>
    /\ bf.k >= 2
    /\ DOMAIN bf.buckets.nz # {}

\* offset l addresses bit j of word i
Addresses(l, i, j) == WordIndex(l) = i /\ Lo(l) % 32 = j

\* C18: the frame of Add.  A step that is Add(v) or AddInt(v) leaves the bit
\* count, the hash count and the number of words as they were, sets bit
\* offset mod 32 of word offset / 32 for each offset of v, and leaves every
\* bit that no offset of v addresses as it was.  An Add that panics changes
\* nothing.
AddFrame ==
    [][(nops' = nops + 1 /\ ret'.op \in {"Add", "AddInt"}) =>
          IF ret'.val = "panic" THEN bf' = bf
          ELSE LET loc == locations(bf, ArgBytes(ret'))
               IN  /\ bf'.m = bf.m
                   /\ bf'.k = bf.k
                   /\ bf'.buckets.len = bf.buckets.len
                   /\ \A n \in 1..Len(loc) :
                         Bit32(WordAt(bf'.buckets, WordIndex(loc[n])),
                               Lo(loc[n]) % 32) = 1
                   /\ \A i \in DOMAIN bf.buckets.nz \cup DOMAIN bf'.buckets.nz :
                         \A j \in 0..31 :
                             (\A n \in 1..Len(loc) : ~Addresses(loc[n], i, j)) =>
                                 Bit32(WordAt(bf'.buckets, i), j)
                                     = Bit32(WordAt(bf.buckets, i), j)]_vars

\* C18 witness: AddInt has returned on a two-word filter with two or more
\* hashes that already held the bits of "foo".
AddFrameWitness ==
    /\ ret.op = "AddInt"
    /\ ret.val = "ok"
    /\ <<102, 111, 111>> \in added
    /\ bf.k >= 2
    /\ bf.buckets.len = <<0, 2>>

\* every offset bit of v is set in the words of f
AllBitsSet(f, v) ==
    \A n \in 1..f.k :
        Bit32(WordAt(f.buckets, WordIndex(locations(f, v)[n])),
              Lo(locations(f, v)[n]) % 32) = 1

\* C20: Test returns true iff every offset bit is set.  A step that is
\* Test(v) or TestInt(v) on a filter with hash count k >= 0 leaves the filter
\* as it was and returns true or false: true exactly when every one of the k
\* offset bits of v is set, hence true when k = 0, and false when k >= 1 and
\* the filter holds no bit.
TestIffAllBits ==
    [][(nops' = nops + 1 /\ ret'.op \in {"Test", "TestInt"} /\ bf.k >= 0) =>
          /\ bf' = bf
          /\ ret'.val \in {"true", "false"}
          /\ (ret'.val = "true") = AllBitsSet(bf, ArgBytes(ret'))
          /\ bf.k = 0 => ret'.val = "true"
          /\ (bf.k >= 1 /\ DOMAIN bf.buckets.nz = {}) => ret'.val = "false"]_vars

----------------------------------------------------------------------------
(* Concurrent use: NumThreads threads call Add, AddInt, Test, TestInt and    *)
(* ToBytes on one filter.  A call is a sequence of steps: the lock           *)
(* operations, and one step per iteration of its loop over the offsets or    *)
(* the buckets.                                                              *)
(*                                                                           *)
(* sync.RWMutex: Lock first excludes other writers and announces itself      *)
(* (lock.w), then waits until the readers that hold the lock have released   *)
(* it.  RLock succeeds at once unless a writer has announced itself; if one  *)
(* has, the reader waits (lock.wait) until that writer's Unlock, which hands *)
(* the read lock to every waiting reader.  lock.r[t] counts the read locks   *)
(* thread t holds.                                                           *)

\* a bug in RLock: readers are admitted while a writer holds or awaits the lock
WriterAbsent_Ignored(l) == TRUE

\* RLock's fast path: no writer has announced itself
WriterAbsent(l) == l.w = 0

\* a bug in Lock: the writer does not wait for the readers to leave
NoReaders_Ignored(l) == TRUE

\* Lock's wait: every read lock has been released
NoReaders(l) == \A t \in Threads : l.r[t] = 0

\* the arguments of the concurrent calls: one byte sequence, one integer
ConcSeqs == {<<102, 111, 111>>}
ConcInts == {<<0, 1>>}

\* the filter the threads share
ConcInit ==
    /\ bf = New(IntOf(33), 2)
    /\ added = {}
    /\ th = [t \in Threads |-> Idle]
    /\ lock = Unlocked
    /\ own = NoOwner
    /\ dh = NoDigests
    /\ out = NoBytes
    /\ g = NoFilter
    /\ ret = [op |-> "New", arg |-> [m |-> IntOf(33), k |-> 2], val |-> "ok"]
    /\ outOf = NoSnap
    /\ gOf = NoSnap
    /\ nops = 0

\* thread t calls op on the byte sequence v, entering at pc
Start(t, op, v, pc) ==
    /\ th[t].pc = "idle"
    /\ th' = [th EXCEPT ![t] = [Idle EXCEPT !.pc = pc, !.op = op, !.v = v,
                                             !.sure = (v \in added)]]
    /\ UNCHANGED <<bf, added, lock, seqvars, auxvars>>

StartAdd(t, v) == Start(t, "Add", v, "add_lock")
StartAddInt(t, i) == Start(t, "AddInt", IntBytes(i), "add_lock")
StartTest(t, v) == Start(t, "Test", v, "test_rlock")
StartTestInt(t, i) == Start(t, "TestInt", IntBytes(i), "ti_rlock")
StartToBytes(t) == Start(t, "ToBytes", <<>>, "tb_rlock")

\* a bug in Lock: a second writer is let in while one holds the lock
WriterMutexFree_Ignored(l) == TRUE

\* Lock's writer mutex: no other writer holds or awaits the lock
WriterMutexFree(l) == l.w = 0

\* bf.lock.Lock(), first half: exclude other writers, hold back new readers
LockAnnounce(t) ==
    /\ th[t].pc = "add_lock"
    /\ WriterMutexFree(lock)
    /\ lock' = [lock EXCEPT !.w = t]
    /\ th' = [th EXCEPT ![t].pc = "add_drain"]
    /\ UNCHANGED <<bf, added, seqvars, auxvars>>

\* bf.lock.Lock(), second half: the readers have left; then
\* l := bf.locations(v)
LockAcquire(t) ==
    /\ th[t].pc = "add_drain"
    /\ NoReaders(lock)
    /\ lock' = [lock EXCEPT !.active = TRUE]
    /\ th' = [th EXCEPT ![t].pc = "add_loop", ![t].i = 1,
                        ![t].loc = locations(bf, th[t].v)]
    /\ UNCHANGED <<bf, added, seqvars, auxvars>>

\* buckets[l/32] |= 1 << (l % 32) is a read of the word and a write of it.
\* The read, or the end of the loop of Add:
AddStep(t) ==
    /\ th[t].pc = "add_loop"
    /\ IF th[t].i > Len(th[t].loc)
       THEN th' = [th EXCEPT ![t].pc = "add_unlock"]
       ELSE th' = [th EXCEPT ![t].pc = "add_store",
                             ![t].w = WordAt(bf.buckets,
                                             Shr32(th[t].loc[th[t].i], 5))]
    /\ UNCHANGED <<bf, added, lock, seqvars, auxvars>>

\* the write of the word read, with the bit of the offset set
AddStore(t) ==
    /\ th[t].pc = "add_store"
    /\ bf' = [bf EXCEPT !.buckets =
                 WordPut(bf.buckets, Shr32(th[t].loc[th[t].i], 5),
                         Or32(th[t].w,
                              Shl32(<<0, 1>>, Lo(th[t].loc[th[t].i]) % 32)))]
    /\ th' = [th EXCEPT ![t].pc = "add_loop", ![t].i = th[t].i + 1]
    /\ UNCHANGED <<added, lock, seqvars, auxvars>>

\* the deferred bf.lock.Unlock() and the return of Add: the waiting readers
\* are handed the read lock
AddUnlock(t) ==
    /\ th[t].pc = "add_unlock"
    /\ lock' = [w |-> 0, active |-> FALSE, wait |-> {},
                r |-> [u \in Threads |->
                         IF u \in lock.wait THEN lock.r[u] + 1 ELSE lock.r[u]]]
    /\ added' = added \cup {th[t].v}
    /\ th' = [th EXCEPT ![t] = Idle]
    /\ UNCHANGED <<bf, seqvars, auxvars>>

\* where a thread goes once it holds the read lock it asked for at pc
AfterRLock(pc) ==
    CASE pc \in {"test_rlock", "test_rwait"} -> "test_loop"
      [] pc \in {"ti_rlock", "ti_rwait"} -> "test_rlock"
      [] pc \in {"tb_rlock", "tb_rwait"} -> "tb_loop"
WaitRLock(pc) ==
    CASE pc = "test_rlock" -> "test_rwait"
      [] pc = "ti_rlock" -> "ti_rwait"
      [] pc = "tb_rlock" -> "tb_rwait"

\* the locals of a thread that now holds the read lock asked for at pc; in
\* Test, l := bf.locations(v) follows
Entered(r, pc) ==
    [r EXCEPT !.pc = AfterRLock(pc),
              !.i = IF AfterRLock(pc) = "tb_loop" THEN 0 ELSE 1,
              !.loc = IF AfterRLock(pc) = "test_loop"
                      THEN locations(bf, r.v) ELSE <<>>,
              !.inInt = r.inInt \/ pc \in {"ti_rlock", "ti_rwait"}]

\* bf.lock.RLock(): taken at once, or the thread starts to wait
RLock(t) ==
    /\ th[t].pc \in {"test_rlock", "ti_rlock", "tb_rlock"}
    /\ IF WriterAbsent(lock)
       THEN /\ lock' = [lock EXCEPT !.r[t] = lock.r[t] + 1]
            /\ th' = [th EXCEPT ![t] = Entered(th[t], th[t].pc)]
       ELSE /\ lock' = [lock EXCEPT !.wait = lock.wait \cup {t}]
            /\ th' = [th EXCEPT ![t].pc = WaitRLock(th[t].pc)]
    /\ UNCHANGED <<bf, added, seqvars, auxvars>>

\* bf.lock.RLock() returns to a reader that waited
RLockGranted(t) ==
    /\ th[t].pc \in {"test_rwait", "ti_rwait", "tb_rwait"}
    /\ t \notin lock.wait
    /\ th' = [th EXCEPT ![t] = Entered(th[t], th[t].pc)]
    /\ UNCHANGED <<bf, added, lock, seqvars, auxvars>>

\* one iteration of the loop of Test, or its end
TestStep(t) ==
    /\ th[t].pc = "test_loop"
    /\ IF th[t].i > Len(th[t].loc)
       THEN th' = [th EXCEPT ![t].pc = "test_runlock", ![t].res = "true"]
       ELSE IF BitClear(bf.buckets, th[t].loc[th[t].i])
       THEN th' = [th EXCEPT ![t].pc = "test_runlock", ![t].res = "false"]
       ELSE th' = [th EXCEPT ![t].i = th[t].i + 1]
    /\ UNCHANGED <<bf, added, lock, seqvars, auxvars>>

\* the deferred bf.lock.RUnlock() of Test and its return, to the caller or
\* into TestInt
TestRUnlock(t) ==
    /\ th[t].pc = "test_runlock"
    /\ lock' = [lock EXCEPT !.r[t] = lock.r[t] - 1]
    /\ th' = [th EXCEPT ![t] = IF th[t].inInt
                                THEN [th[t] EXCEPT !.pc = "ti_runlock"]
                                ELSE Idle]
    /\ UNCHANGED <<bf, added, seqvars, auxvars>>

\* the deferred bf.lock.RUnlock() of TestInt and its return
TestIntRUnlock(t) ==
    /\ th[t].pc = "ti_runlock"
    /\ lock' = [lock EXCEPT !.r[t] = lock.r[t] - 1]
    /\ th' = [th EXCEPT ![t] = Idle]
    /\ UNCHANGED <<bf, added, seqvars, auxvars>>

\* bb = append(bb, a...) for the 4 bytes a of one bucket
AppendBytes(bb, a) ==
    [len |-> AddSmallInt(bb.len, 4),
     nz  |-> [j \in DOMAIN bb.nz \cup
                      {AddSmallInt(bb.len, b - 1) : b \in {x \in 1..4 : a[x] # 0}} |->
                IF j \in DOMAIN bb.nz THEN bb.nz[j]
                ELSE a[Val(j) - Val(bb.len) + 1]]]
AppendWord(bb, w) == AppendBytes(bb, PutUint32(w))

\* one iteration of the loop of ToBytes, or its end
ToBytesStep(t) ==
    /\ th[t].pc = "tb_loop"
    /\ IF th[t].i >= Val(bf.buckets.len)
       THEN th' = [th EXCEPT ![t].pc = "tb_runlock"]
       ELSE th' = [th EXCEPT ![t].i = th[t].i + 1,
                             ![t].bb = AppendWord(th[t].bb,
                                                  WordAt(bf.buckets, IntOf(th[t].i)))]
    /\ UNCHANGED <<bf, added, lock, seqvars, auxvars>>

\* the deferred bf.lock.RUnlock() of ToBytes and its return
ToBytesRUnlock(t) ==
    /\ th[t].pc = "tb_runlock"
    /\ lock' = [lock EXCEPT !.r[t] = lock.r[t] - 1]
    /\ th' = [th EXCEPT ![t] = Idle]
    /\ UNCHANGED <<bf, added, seqvars, auxvars>>

\* a step of a call in progress
Step(t) ==
    \/ LockAnnounce(t)
    \/ LockAcquire(t)
    \/ AddStep(t)
    \/ AddStore(t)
    \/ AddUnlock(t)
    \/ RLock(t)
    \/ RLockGranted(t)
    \/ TestStep(t)
    \/ TestRUnlock(t)
    \/ TestIntRUnlock(t)
    \/ ToBytesStep(t)
    \/ ToBytesRUnlock(t)

Progress == \E t \in Threads : Step(t)

ConcNext ==
    \/ \E t \in Threads, v \in ConcSeqs : StartAdd(t, v)
    \/ \E t \in Threads, i \in ConcInts : StartAddInt(t, i)
    \/ \E t \in Threads, v \in ConcSeqs : StartTest(t, v)
    \/ \E t \in Threads, i \in ConcInts : StartTestInt(t, i)
    \/ \E t \in Threads : StartToBytes(t)
    \/ Progress

ConcSpec == ConcInit /\ [][ConcNext]_vars

----------------------------------------------------------------------------
(* Properties of concurrent use *)

\* thread t is between Lock and Unlock
InWrite(t) == th[t].pc \in {"add_loop", "add_store", "add_unlock"}

\* thread t is between an RLock and its RUnlock
InRead(t) ==
    \/ th[t].pc \in {"test_loop", "test_runlock", "tb_loop", "tb_runlock",
                     "ti_runlock"}
    \/ th[t].inInt /\ th[t].pc \in {"test_rlock", "test_rwait"}

\* C2: a Test or TestInt of v that started after an Add of v had returned
\* answers true, and no thread is in the loop of Test while another is in
\* the loop of Add, between two of its writes or between a read and its write.
ConcurrentTestObserves ==
    /\ \A t \in Threads :
          (th[t].op \in {"Test", "TestInt"} /\ th[t].sure /\ th[t].res # "none")
              => th[t].res = "true"
    /\ \A t, u \in Threads :
          ~(th[t].pc = "test_loop" /\ th[u].pc \in {"add_loop", "add_store"})

\* C2 witness: a Test that started after the Add of its value has its answer
\* and still holds the read lock, while another thread's Add waits for it.
ConcurrentTestObservesWitness ==
    \E t, u \in Threads :
        /\ th[t].pc = "test_runlock"
        /\ th[t].sure
        /\ th[t].res = "true"
        /\ th[u].pc = "add_drain"

\* thread t waits in Lock or RLock for a condition that does not hold: for
\* the writer mutex, for the readers to leave, or for the writer's Unlock
Blocked(t) ==
    \/ th[t].pc = "add_lock" /\ lock.w # 0
    \/ th[t].pc = "add_drain" /\ ~NoReaders(lock)
    \/ th[t].pc \in {"test_rwait", "ti_rwait", "tb_rwait"} /\ t \in lock.wait

\* C3: deadlock freedom.  Every call that has started returns, TestInt
\* included; so in every state in which calls are in progress, one of them
\* can take a step.
CallsCanProceed ==
    (\E t \in Threads : th[t].pc # "idle")
        => \E t \in Threads : th[t].pc # "idle" /\ ~Blocked(t)

\* C4: Add has exclusive access.  While a thread is between Lock and Unlock
\* no other thread is between Lock and Unlock or between an RLock and its
\* RUnlock.
AddExclusive ==
    \A t, u \in Threads :
        (t # u /\ InWrite(t)) => ~InWrite(u) /\ ~InRead(u)

\* C4 witness: a thread has set the first bit of its Add while a reader
\* waits for the read lock.
AddExclusiveWitness ==
    \E t, u \in Threads :
        /\ th[t].pc = "add_loop"
        /\ th[t].i = 2
        /\ u \in lock.wait

\* the values the threads pass, and the two digests locations takes of each
ConcValues == ConcSeqs \cup {IntBytes(i) : i \in ConcInts}
ConcDigests == [v \in ConcValues |-> <<fnv_1a(v, SeedA), fnv_1a(v, SeedB)>>]

\* the elements of the sequence r
Elems(r) == {r[n] : n \in DOMAIN r}

\* the offsets of the values in S on the shared filter
OffsetsOf(S) ==
    UNION {Elems(OffsetsFrom(ConcDigests[v][1], ConcDigests[v][2], bf.m, bf.k))
              : v \in S}

\* C19: no lost updates, order independence.  Whenever every Add that has
\* started setting bits has returned, the words are the OR of the initial
\* words, which are zero, with the offset bits of the values added: a bit is
\* set exactly when an offset of an added value addresses it.  The right-hand
\* side is a function of the set of values added alone.
NoLostUpdates ==
    (\A t \in Threads : ~InWrite(t)) =>
        LET offs == OffsetsOf(added)
        IN  /\ \A l \in offs :
                  Bit32(WordAt(bf.buckets, WordIndex(l)), Lo(l) % 32) = 1
            /\ \A i \in DOMAIN bf.buckets.nz : \A j \in 0..31 :
                  Bit32(bf.buckets.nz[i], j) = 1
                      => \E l \in offs : Addresses(l, i, j)

\* C19 witness: both values have been added and every call has returned.
NoLostUpdatesWitness ==
    /\ Cardinality(added) = 2
    /\ \A t \in Threads : th[t].pc = "idle"
    /\ Cardinality(DOMAIN bf.buckets.nz) >= 1

----------------------------------------------------------------------------
(* Double hashing: the offsets locations derives from two digests, for      *)
(* digests and bit counts drawn from small sets.                            *)

MaxWords == 3

\* 32-bit digests: small ones, 2^31, and ones within 96 of 2^32
Digests ==
    {<<0, 1>>, <<0, 95>>, <<Half \div 2, 0>>, <<Half - 1, Half - 32>>,
     <<Half - 1, Half - 1>>}

\* bit counts: the positive multiples of 32 up to 32 * MaxWords
BitCounts == {<<0, 32 * n>> : n \in 1..MaxWords}

HashInit ==
    /\ \E a \in Digests, b \in Digests, m \in BitCounts, k \in 0..MaxK :
          dh = [a |-> a, b |-> b, m |-> m, k |-> k, done |-> FALSE, r |-> <<>>]
    /\ bf = New(IntOf(32), 0)
    /\ ret = [op |-> "New", arg |-> [m |-> IntOf(32), k |-> 0], val |-> "ok"]
    /\ out = NoBytes
    /\ g = NoFilter
    /\ added = {}
    /\ outOf = NoSnap
    /\ gOf = NoSnap
    /\ nops = 0
    /\ th = [t \in Threads |-> Idle]
    /\ lock = Unlocked
    /\ own = NoOwner

\* the part of locations that follows the two calls of fnv_1a
Locate ==
    /\ ~dh.done
    /\ dh' = [dh EXCEPT !.done = TRUE,
                        !.r = OffsetsFrom(dh.a, dh.b, dh.m, dh.k)]
    /\ UNCHANGED <<bf, added, seqvars, concvars, own>>

HashNext == Locate

HashSpec == HashInit /\ [][HashNext]_vars

\* a 32-bit digest modulo a small n, computed on integers
DigestMod(a, n) == ((Hi(a) % n) * (Half % n) + Lo(a)) % n

\* C17: the double hashing recurrence.  The offsets are x_i =
\* (hashA + i * hashB) mod m on the integers, for every pair of digests and
\* every bit count that is a positive multiple of 32; the right-hand side is
\* computed as ((hashA mod m) + i * (hashB mod m)) mod m, which is the same
\* number.
DoubleHashing ==
    dh.done =>
        /\ Len(dh.r) = dh.k
        /\ \A i \in 1..Len(dh.r) :
              Val(dh.r[i]) = (DigestMod(dh.a, Val(dh.m))
                                + (i - 1) * DigestMod(dh.b, Val(dh.m))) % Val(dh.m)

----------------------------------------------------------------------------
(* Storage: which backing array each slice uses.  own gives the array of    *)
(* bf's words, of the bytes out and of g's words, 0 for a slice that does   *)
(* not exist yet.  A write through one slice shows in every slice that uses *)
(* the same array: words seen as bytes, bytes seen as words.                *)

\* an array no slice uses yet
Fresh(o) ==
    1 + (CHOOSE x \in {o.bf, o.out, o.g} : \A y \in {o.bf, o.out, o.g} : y <= x)

\* a bug in NewFromBytes: the words are a view of the bytes passed in
NewFromBytesBacking_Shares(o) == o.out

\* ToBytes starts from []byte{} and appends: the bytes are in a new array
ToBytesBacking(o) == Fresh(o)

\* NewFromBytes decodes into make([]uint32, len(bb)/4): a new array
NewFromBytesBacking(o) == Fresh(o)

\* the words seen through the bytes bb, and the bytes seen through words
WordsView(bb) == NewFromBytes(bb, 0).buckets
BytesView(words) == ToBytes([m |-> <<0, 0>>, k |-> 0, buckets |-> words])

\* bb[i] = y
BytePut(s, i, y) ==
    IF y = 0
    THEN [s EXCEPT !.nz = [j \in DOMAIN s.nz \ {i} |-> s.nz[j]]]
    ELSE [s EXCEPT !.nz = [j \in DOMAIN s.nz \cup {i} |->
                              IF j = i THEN y ELSE s.nz[j]]]

\* the bytes an outside writer stores into the slice it holds, and where
Overwrites == {<<0, 255>>, <<7, 1>>}

OwnInit ==
    /\ \E m \in {IntOf(32), IntOf(33)}, k \in 1..MaxK :
          /\ bf = New(m, k)
          /\ ret = [op |-> "New", arg |-> [m |-> m, k |-> k], val |-> "ok"]
    /\ own = [bf |-> 1, out |-> 0, g |-> 0]
    /\ out = NoBytes
    /\ g = NoFilter
    /\ added = {}
    /\ outOf = NoSnap
    /\ gOf = NoSnap
    /\ nops = 0
    /\ th = [t \in Threads |-> Idle]
    /\ lock = Unlocked
    /\ dh = NoDigests

\* bf.Add(v): the words of bf are written
OwnAdd(v) ==
    /\ nops < MaxOps
    /\ nops' = nops + 1
    /\ bf' = Add(bf, v)
    /\ g' = IF own.g = own.bf THEN [g EXCEPT !.buckets = bf'.buckets] ELSE g
    /\ out' = IF own.out = own.bf THEN BytesView(bf'.buckets) ELSE out
    /\ added' = added \cup {v}
    /\ ret' = [op |-> "Add", arg |-> v, val |-> "ok"]
    /\ UNCHANGED <<own, outOf, gOf, concvars, dh>>

\* g.Add(v): the words of g are written
OwnAddG(v) ==
    /\ nops < MaxOps
    /\ own.g # 0
    /\ nops' = nops + 1
    /\ g' = Add(g, v)
    /\ bf' = IF own.bf = own.g THEN [bf EXCEPT !.buckets = g'.buckets] ELSE bf
    /\ out' = IF own.out = own.g THEN BytesView(g'.buckets) ELSE out
    /\ ret' = [op |-> "g.Add", arg |-> v, val |-> "ok"]
    /\ UNCHANGED <<own, added, outOf, gOf, concvars, dh>>

\* out = bf.ToBytes()
OwnToBytes ==
    /\ nops < MaxOps
    /\ nops' = nops + 1
    /\ out' = ToBytes(bf)
    /\ own' = [own EXCEPT !.out = ToBytesBacking(own)]
    /\ ret' = [op |-> "ToBytes", arg |-> <<>>, val |-> "ok"]
    /\ UNCHANGED <<bf, g, added, outOf, gOf, concvars, dh>>

\* g = NewFromBytes(out, bf.k)
OwnNewFromBytes ==
    /\ nops < MaxOps
    /\ own.out # 0
    /\ nops' = nops + 1
    /\ g' = NewFromBytes(out, bf.k)
    /\ own' = [own EXCEPT !.g = NewFromBytesBacking(own)]
    /\ ret' = [op |-> "NewFromBytes", arg |-> [b |-> out, k |-> bf.k],
               val |-> "ok"]
    /\ UNCHANGED <<bf, out, added, outOf, gOf, concvars, dh>>

\* the caller stores the byte w[2] at index w[1] of the bytes it was given
OwnOverwrite(w) ==
    /\ nops < MaxOps
    /\ own.out # 0
    /\ LessInt(IntOf(w[1]), out.len)
    /\ nops' = nops + 1
    /\ out' = BytePut(out, IntOf(w[1]), w[2])
    /\ bf' = IF own.bf = own.out THEN [bf EXCEPT !.buckets = WordsView(out')]
             ELSE bf
    /\ g' = IF own.g = own.out THEN [g EXCEPT !.buckets = WordsView(out')]
            ELSE g
    /\ ret' = [op |-> "overwrite", arg |-> w, val |-> "ok"]
    /\ UNCHANGED <<own, added, outOf, gOf, concvars, dh>>

OwnNext ==
    \/ \E v \in ByteSeqs : OwnAdd(v)
    \/ \E v \in ByteSeqs : OwnAddG(v)
    \/ OwnToBytes
    \/ OwnNewFromBytes
    \/ \E w \in Overwrites : OwnOverwrite(w)

OwnSpec == OwnInit /\ [][OwnNext]_vars

\* C13: no shared backing storage.  The words of bf change only in an Add on
\* bf; the words of g, once built, change only in an Add on g or when g is
\* built again; the bytes ToBytes returned change only when the caller
\* overwrites them or takes new ones.  So Adds on g and overwritten bytes
\* leave bf's words alone, and Adds on bf and overwritten bytes leave g's.
NoSharedStorage ==
    [][/\ bf'.buckets # bf.buckets => ret'.op = "Add"
       /\ (g # NoFilter /\ g'.buckets # g.buckets)
             => ret'.op \in {"g.Add", "NewFromBytes"}
       /\ (out # NoBytes /\ out' # out)
             => ret'.op \in {"ToBytes", "overwrite"}]_vars

\* C13 witness: after g was built from the bytes of bf, an Add on g has set
\* bits in g while bf holds none.
NoSharedStorageWitness ==
    /\ ret.op = "g.Add"
    /\ own.g # 0
    /\ DOMAIN g.buckets.nz # {}
    /\ DOMAIN bf.buckets.nz = {}

====
